---- MODULE Spec2Model ----
(***************************************************************************)
(* caddy_rest_storage: RestStorage, a certmagic.Storage backed by a remote *)
(* key-value service reached by HTTP POST (src/rest.go).                   *)
(*                                                                         *)
(* Each caller runs one operation at a time on its own adapter instance.   *)
(* An operation is cut at the points where the network or the caller's     *)
(* context can interleave with it:                                         *)
(*   "start"  before http.NewRequestWithContext / r.client.Do              *)
(*   "wait"   inside r.client.Do, the request or the response in flight    *)
(*   "done"   the operation has returned (result, retval) or has faulted   *)
(***************************************************************************)
EXTENDS Integers, Sequences, FiniteSets, TLC

\* ------------------------------------------------------------ bounds
\* Attempt counters of one Lock call saturate at MaxPosts (the loop itself
\* is not bounded by it).
MaxPosts == 3
\* Values stored and loaded are byte sequences of at most MaxValueLen bytes
\* over ByteSamples.
MaxValueLen == 3

Callers == {"c1", "c2"}
\* The caller of the content operations (store, load, delete, exists, list,
\* stat); the lock protocol is run by all Callers.
KVCallers == {"c1"}

ByteSamples == {0, 77, 255}
Values == UNION {[1..n -> ByteSamples] : n \in 0..MaxValueLen}
\* The values stored where the contents do not matter.
SampleValues == {<<>>, <<77, 255>>}

Min(a, b) == IF a < b THEN a ELSE b
Bump(n) == Min(n + 1, MaxPosts)

\* ------------------------------------------------------------ state
VARIABLES
    client,      \* client[c]: the adapter's client field is set (TRUE) or nil
    op,          \* op[c]: the operation caller c is running or ran last
    pc,          \* pc[c]: "idle", "start", "wait", "done"
    ctxDone,     \* ctxDone[c]: the ctx passed to the running call is done
    net,         \* net[c]: "none", "req" (POST on the wire), "resp"
    resp,        \* resp[c]: the response on the wire, NoResp if none
    last,        \* last[c]: the last response the running call received
    result,      \* result[c]: how the call ended
    posts,       \* posts[c]: POSTs issued by the running call (saturating)
    n412,        \* n412[c]: 412 responses received by the running Lock call
    lockHolder,  \* remote: who holds the lock on the key, or "free"
    owns,        \* owns[c]: Lock returned nil to c and the remote has not
                 \*          processed an unlock of the key since
    granted,     \* granted[c]: the remote answered 201 to a request of c's
                 \*             running (or last) Lock call
    released,    \* released[c]: the remote released the lock on a request
                 \*              of c's running (or last) Unlock call
    arg,         \* arg[c]: the value passed to the running Store call
    req,         \* req[c]: the body of the request on the wire
    retval,      \* retval[c]: what the call returned beside its error
    kv,          \* remote: the stored entry of the key (wire form)
    plain,       \* the bytes given to the Store call whose request the
                 \* remote stored last
    endpoint,    \* endpoint[c]: the adapter's Endpoint is non-empty
    token,       \* token[c]: the adapter's Token is non-empty
    validated,   \* validated[c]: what Validate returned last, "none" if it
                 \*               was not called
    open,        \* open[c]: response bodies the running call holds open
    removed,     \* removed[c]: the remote removed the entry on a request of
                 \*             c's running (or last) call
    deleted,     \* remote: the entry was removed by a delete and not
                 \*         stored since
    storedTwice, \* remote: the value stored last was stored twice running
    overtaken    \* overtaken[c]: the remote granted the key to another
                 \*               caller after a POST of c's running Lock call

lockVars == <<lockHolder, owns, granted, released>>
kvVars == <<arg, req, retval, kv, plain, deleted, storedTwice>>
cfgVars == <<endpoint, token, validated>>
callGhost == <<open, removed, overtaken>>

vars == <<client, op, pc, ctxDone, net, resp, last, result, posts, n412,
          lockHolder, owns, granted, released, arg, req, retval, kv, plain,
          endpoint, token, validated, open, removed, deleted, storedTwice,
          overtaken>>

\* A response: status code and decoded body. kind is "empty", "malformed"
\* (not JSON of the expected shape), "value", "exists", "keys" or "stat".
NoStat == [key |-> "", modified |-> <<>>, size |-> 0, isTerminal |-> FALSE]
NoResp == [status |-> 0, kind |-> "none", wire |-> <<>>, flag |-> FALSE,
           keys |-> <<>>, stat |-> NoStat]
Empty(st) == [NoResp EXCEPT !.status = st, !.kind = "empty"]
Malformed(st) == [NoResp EXCEPT !.status = st, !.kind = "malformed"]

\* A request: the URL's path below the endpoint, whether the body's token
\* field is non-empty, and Store's value field (src: the bytes it encodes).
NoReq == [path |-> "", token |-> FALSE, wire |-> <<>>, src |-> <<>>]

\* What a call returns beside its error: Load's bytes, Exists' boolean,
\* List's keys, Stat's KeyInfo.
NoInfo == [key |-> "", instant |-> 0, size |-> 0, isTerminal |-> FALSE]
NoRet == [bytes |-> <<>>, flag |-> FALSE, keys |-> <<>>, info |-> NoInfo]

\* Caller c is inside a Lock call; its Lock, its Unlock call has returned.
InLock(c) == op[c] = "lock" /\ pc[c] \in {"start", "wait"}
LockDone(c) == op[c] = "lock" /\ pc[c] = "done"
UnlockDone(c) == op[c] = "unlock" /\ pc[c] = "done"

\* ------------------------------------------------------------ base64
\* A base64 string is a sequence of alphabet indices 0..63 and Pad ('=').
Pad == 64

\* base64.StdEncoding.EncodeToString: 3 bytes to 4 characters, the last
\* group padded with '='.
RECURSIVE EncodeToStringRaw(_)
EncodeToStringRaw(v) ==
    IF Len(v) = 0 THEN <<>>
    ELSE IF Len(v) = 1
      THEN <<v[1] \div 4, (v[1] % 4) * 16>>
    ELSE IF Len(v) = 2
      THEN <<v[1] \div 4, (v[1] % 4) * 16 + v[2] \div 16, (v[2] % 16) * 4>>
    ELSE <<v[1] \div 4, (v[1] % 4) * 16 + v[2] \div 16,
           (v[2] % 16) * 4 + v[3] \div 64, v[3] % 64>>
         \o EncodeToStringRaw(SubSeq(v, 4, Len(v)))

RECURSIVE EncodeToString(_)
EncodeToString(v) ==
    IF Len(v) = 0 THEN <<>>
    ELSE IF Len(v) = 1
      THEN <<v[1] \div 4, (v[1] % 4) * 16, Pad, Pad>>
    ELSE IF Len(v) = 2
      THEN <<v[1] \div 4, (v[1] % 4) * 16 + v[2] \div 16, (v[2] % 16) * 4, Pad>>
    ELSE <<v[1] \div 4, (v[1] % 4) * 16 + v[2] \div 16,
           (v[2] % 16) * 4 + v[3] \div 64, v[3] % 64>>
         \o EncodeToString(SubSeq(v, 4, Len(v)))

DecodeError == [ok |-> FALSE, bytes |-> <<>>]
Decoded(b) == [ok |-> TRUE, bytes |-> b]

\* base64.StdEncoding.DecodeString: groups of 4 characters; padding only at
\* the end of the last group; anything else is a CorruptInputError.
RECURSIVE DecodeString(_)
DecodeString(s) ==
    IF Len(s) = 0 THEN Decoded(<<>>)
    ELSE IF Len(s) < 4 THEN DecodeError
    ELSE LET b1 == s[1] * 4 + s[2] \div 16
             b2 == (s[2] % 16) * 16 + s[3] \div 4
             b3 == (s[3] % 4) * 64 + s[4]
             rest == SubSeq(s, 5, Len(s))
         IN  IF Pad \notin {s[1], s[2], s[3], s[4]}
               THEN LET r == DecodeString(rest)
                    IN  IF r.ok THEN Decoded(<<b1, b2, b3>> \o r.bytes)
                        ELSE DecodeError
             ELSE IF Len(rest) # 0 \/ s[1] = Pad \/ s[2] = Pad THEN DecodeError
             ELSE IF s[3] = Pad
               THEN IF s[4] = Pad THEN Decoded(<<b1>>) ELSE DecodeError
             ELSE Decoded(<<b1, b2>>)

\* ------------------------------------------------------------ adapter
\* Lock's interpretation of a response status: nil on 201, the loop goes
\* round on 412, an error on anything else.
LockStatusAccepts412(st) ==
    IF st = 201 \/ st = 412 THEN "ok" ELSE "unexpected"

LockStatusRetriesAny(st) ==
    IF st = 201 THEN "ok" ELSE "retry"

LockStatus(st) ==
    IF st = 201 THEN "ok"
    ELSE IF st # 412 THEN "unexpected"
    ELSE "retry"

\* Unlock's interpretation of a response status.
UnlockStatusExpects200(st) ==
    IF st # 200 THEN "unexpected" ELSE "ok"

UnlockStatus(st) ==
    IF st # 204 THEN "unexpected" ELSE "ok"

\* Validate: the endpoint is tested first, then the token.
ValidateResultEndpointOnly(e, t) ==
    IF ~e THEN "endpoint" ELSE "nil"

ValidateResultTokenFirst(e, t) ==
    IF ~t THEN "token"
    ELSE IF ~e THEN "endpoint"
    ELSE "nil"

ValidateResult(e, t) ==
    IF ~e THEN "endpoint"
    ELSE IF ~t THEN "token"
    ELSE "nil"

\* r.Validate() on a copy of the adapter (value receiver), once, when the
\* adapter has been configured.
Validate(c) ==
    /\ pc[c] = "idle" /\ validated[c] = "none"
    /\ validated' = [validated EXCEPT ![c] =
                         ValidateResult(endpoint[c], token[c])]
    /\ UNCHANGED <<endpoint, token, callGhost, client, op, pc, ctxDone, net,
                   resp, last, result, posts, n412, lockVars, kvVars>>

\* The URL each operation POSTs to is r.Endpoint followed by this literal.
RequestPathOfLock(o) == "lock"

RequestPath(o) ==
    CASE o = "lock" -> "lock"
      [] o = "unlock" -> "unlock"
      [] o = "store" -> "store"
      [] o = "load" -> "load"
      [] o = "delete" -> "delete"
      [] o = "exists" -> "exists"
      [] o = "list" -> "list"
      [] o = "stat" -> "stat"

\* A response body obtained from r.client.Do, and resp.Body.Close().
BodyOpened(n) == Min(n + 1, MaxPosts)
BodyClosed(n) == n - 1

\* The value field of Store's request body.
StoreRequestValue(c) == EncodeToString(arg[c])

\* The body json.Marshal gives the request of the running operation.
RequestBody(c) ==
    IF op[c] = "store"
      THEN [path |-> RequestPath(op[c]), token |-> token[c],
            wire |-> StoreRequestValue(c), src |-> arg[c]]
    ELSE [NoReq EXCEPT !.path = RequestPath(op[c]), !.token = token[c]]

\* The context the request is built with (http.NewRequestWithContext(ctx, ..)).
ReqCtxBackground(c) == FALSE

ReqCtxDone(c) == ctxDone[c]

\* A caller starts operation o with a context that may already be done.
Begin(c, o) ==
    /\ pc[c] \in {"idle", "done"}
    /\ net[c] = "none"
    /\ op' = [op EXCEPT ![c] = o]
    /\ pc' = [pc EXCEPT ![c] = "start"]
    /\ \E d \in BOOLEAN : ctxDone' = [ctxDone EXCEPT ![c] = d]
    /\ last' = [last EXCEPT ![c] = NoResp]
    /\ result' = [result EXCEPT ![c] = "none"]
    /\ retval' = [retval EXCEPT ![c] = NoRet]
    /\ posts' = [posts EXCEPT ![c] = 0]
    /\ n412' = [n412 EXCEPT ![c] = 0]
    /\ open' = [open EXCEPT ![c] = 0]
    /\ removed' = [removed EXCEPT ![c] = FALSE]
    /\ UNCHANGED <<net, resp>>

\* The call returns (or faults) with outcome r. Exists has no error to
\* return: every err != nil is "return false".
Return(c, r) ==
    /\ pc' = [pc EXCEPT ![c] = "done"]
    /\ arg' = [arg EXCEPT ![c] = <<>>]
    /\ result' = [result EXCEPT ![c] =
                      IF op[c] = "exists" /\ r # "panic" THEN "ok" ELSE r]

CallLock(c) ==
    /\ Begin(c, "lock")
    /\ granted' = [granted EXCEPT ![c] = FALSE]
    /\ overtaken' = [overtaken EXCEPT ![c] = FALSE]
    /\ UNCHANGED <<cfgVars, client, lockHolder, owns, released, arg, req,
                   kv, plain, deleted, storedTwice>>

\* Only a caller whose Lock returned nil unlocks the key.
CallUnlock(c) ==
    /\ owns[c]
    /\ Begin(c, "unlock")
    /\ released' = [released EXCEPT ![c] = FALSE]
    /\ UNCHANGED <<cfgVars, overtaken, client, lockHolder, owns, granted, arg,
                   req, kv, plain, deleted, storedTwice>>

\* The caller's cancellation signal fires while the call is running.
Cancel(c) ==
    /\ pc[c] \in {"start", "wait"}
    /\ ~ctxDone[c]
    /\ ctxDone' = [ctxDone EXCEPT ![c] = TRUE]
    /\ UNCHANGED <<cfgVars, callGhost, client, op, pc, net, resp, last,
                   result, posts, n412, lockVars, kvVars>>

\* r.client.Do(req): a nil client faults; a URL without a scheme (an empty
\* Endpoint) and a done context each return an error before anything is
\* written; otherwise the POST goes on the wire.
Do(c) ==
    /\ pc[c] = "start"
    /\ IF ~client[c]
         THEN /\ Return(c, "panic")
              /\ UNCHANGED <<net, req, posts>>
         ELSE IF ~endpoint[c]
         THEN /\ Return(c, "transport")
              /\ UNCHANGED <<net, req, posts>>
         ELSE IF ReqCtxDone(c)
         THEN /\ Return(c, "cancelled")
              /\ UNCHANGED <<net, req, posts>>
         ELSE /\ pc' = [pc EXCEPT ![c] = "wait"]
              /\ net' = [net EXCEPT ![c] = "req"]
              /\ req' = [req EXCEPT ![c] = RequestBody(c)]
              /\ posts' = [posts EXCEPT ![c] = Bump(posts[c])]
              /\ UNCHANGED <<result, arg>>
    /\ UNCHANGED <<cfgVars, callGhost, client, op, ctxDone, resp, last, n412,
                   lockVars, retval, kv, plain, deleted, storedTwice>>

\* r.client.Do returns the context's error while the exchange is in flight.
\* A request already on the wire stays there; a response is dropped.
Abort(c) ==
    /\ pc[c] = "wait"
    /\ ReqCtxDone(c)
    /\ Return(c, "cancelled")
    /\ net' = [net EXCEPT ![c] = IF net[c] = "req" THEN "req" ELSE "none"]
    /\ resp' = [resp EXCEPT ![c] = NoResp]
    /\ UNCHANGED <<cfgVars, callGhost, client, op, ctxDone, last, posts, n412,
                   lockVars, req, retval, kv, plain, deleted, storedTwice>>

\* r.client.Do returns a transport error: the request or the response is
\* lost.
TransportError(c) ==
    /\ pc[c] = "wait"
    /\ Return(c, "transport")
    /\ net' = [net EXCEPT ![c] = "none"]
    /\ req' = [req EXCEPT ![c] = NoReq]
    /\ resp' = [resp EXCEPT ![c] = NoResp]
    /\ UNCHANGED <<cfgVars, callGhost, client, op, ctxDone, last, posts, n412,
                   lockVars, retval, kv, plain, deleted, storedTwice>>

\* Lock, after r.client.Do returned a response.
LockRespCapped(c) ==
    /\ op[c] = "lock" /\ pc[c] = "wait" /\ net[c] = "resp"
    /\ LET out == LockStatus(resp[c].status)
       IN  /\ last' = [last EXCEPT ![c] = resp[c]]
           /\ IF out = "retry" /\ n412[c] < 2
                THEN /\ pc' = [pc EXCEPT ![c] = "start"]
                     /\ n412' = [n412 EXCEPT ![c] = Bump(n412[c])]
                     /\ UNCHANGED <<result, owns, arg>>
                ELSE /\ Return(c, IF out = "retry" THEN "unexpected" ELSE out)
                     /\ owns' = [owns EXCEPT ![c] = owns[c] \/ out = "ok"]
                     /\ UNCHANGED n412
    /\ net' = [net EXCEPT ![c] = "none"]
    /\ resp' = [resp EXCEPT ![c] = NoResp]
    /\ open' = [open EXCEPT ![c] = BodyClosed(BodyOpened(open[c]))]
    /\ UNCHANGED <<cfgVars, removed, overtaken, client, op, ctxDone, posts,
                   lockHolder, granted, released, req, retval, kv, plain,
                   deleted, storedTwice>>

LockResp(c) ==
    /\ op[c] = "lock" /\ pc[c] = "wait" /\ net[c] = "resp"
    /\ LET out == LockStatus(resp[c].status)
       IN  /\ last' = [last EXCEPT ![c] = resp[c]]
           /\ IF out = "retry"
                THEN /\ pc' = [pc EXCEPT ![c] = "start"]
                     /\ n412' = [n412 EXCEPT ![c] = Bump(n412[c])]
                     /\ UNCHANGED <<result, owns, arg>>
                ELSE /\ Return(c, out)
                     /\ owns' = [owns EXCEPT ![c] = owns[c] \/ out = "ok"]
                     /\ UNCHANGED n412
    /\ net' = [net EXCEPT ![c] = "none"]
    /\ resp' = [resp EXCEPT ![c] = NoResp]
    /\ open' = [open EXCEPT ![c] = BodyClosed(BodyOpened(open[c]))]
    /\ UNCHANGED <<cfgVars, removed, overtaken, client, op, ctxDone, posts,
                   lockHolder, granted, released, req, retval, kv, plain,
                   deleted, storedTwice>>

\* Unlock, after r.client.Do returned a response.
UnlockResp(c) ==
    /\ op[c] = "unlock" /\ pc[c] = "wait" /\ net[c] = "resp"
    /\ last' = [last EXCEPT ![c] = resp[c]]
    /\ Return(c, UnlockStatus(resp[c].status))
    /\ net' = [net EXCEPT ![c] = "none"]
    /\ resp' = [resp EXCEPT ![c] = NoResp]
    /\ open' = [open EXCEPT ![c] = BodyClosed(BodyOpened(open[c]))]
    /\ UNCHANGED <<cfgVars, removed, overtaken, client, op, ctxDone, posts,
                   n412, lockVars, req, retval, kv, plain, deleted,
                   storedTwice>>

\* ------------------------------------------------------------ earlier adapter
\* Lock and Unlock of the adapter in src/unnamed/part_000: the requests go
\* out by http.Post on the default client, Lock takes a ctx and does not
\* use it, Unlock takes none, and no response body is closed.

\* http.Post(r.Endpoint+name, ...): a URL without a scheme returns an error;
\* otherwise the POST goes on the wire, whatever ctx says.
PostV0(c) ==
    /\ pc[c] = "start"
    /\ IF ~endpoint[c]
         THEN /\ Return(c, "transport")
              /\ UNCHANGED <<net, req, posts>>
         ELSE /\ pc' = [pc EXCEPT ![c] = "wait"]
              /\ net' = [net EXCEPT ![c] = "req"]
              /\ req' = [req EXCEPT ![c] = RequestBody(c)]
              /\ posts' = [posts EXCEPT ![c] = Bump(posts[c])]
              /\ UNCHANGED <<result, arg>>
    /\ UNCHANGED <<cfgVars, callGhost, client, op, ctxDone, resp, last, n412,
                   lockVars, retval, kv, plain, deleted, storedTwice>>

\* Unlock(key) has no context to be done.
CallUnlockV0(c) == CallUnlock(c) /\ ~ctxDone'[c]

\* Lock, after http.Post returned a response: the same tests of the status,
\* and the body stays open.
LockRespV0(c) ==
    /\ op[c] = "lock" /\ pc[c] = "wait" /\ net[c] = "resp"
    /\ LET out == LockStatus(resp[c].status)
       IN  /\ last' = [last EXCEPT ![c] = resp[c]]
           /\ IF out = "retry"
                THEN /\ pc' = [pc EXCEPT ![c] = "start"]
                     /\ n412' = [n412 EXCEPT ![c] = Bump(n412[c])]
                     /\ UNCHANGED <<result, owns, arg>>
                ELSE /\ Return(c, out)
                     /\ owns' = [owns EXCEPT ![c] = owns[c] \/ out = "ok"]
                     /\ UNCHANGED n412
    /\ net' = [net EXCEPT ![c] = "none"]
    /\ resp' = [resp EXCEPT ![c] = NoResp]
    /\ open' = [open EXCEPT ![c] = BodyOpened(open[c])]
    /\ UNCHANGED <<cfgVars, removed, overtaken, client, op, ctxDone, posts,
                   lockHolder, granted, released, req, retval, kv, plain,
                   deleted, storedTwice>>

\* Unlock, after http.Post returned a response.
UnlockRespV0(c) ==
    /\ op[c] = "unlock" /\ pc[c] = "wait" /\ net[c] = "resp"
    /\ last' = [last EXCEPT ![c] = resp[c]]
    /\ Return(c, UnlockStatus(resp[c].status))
    /\ net' = [net EXCEPT ![c] = "none"]
    /\ resp' = [resp EXCEPT ![c] = NoResp]
    /\ open' = [open EXCEPT ![c] = BodyOpened(open[c])]
    /\ UNCHANGED <<cfgVars, removed, overtaken, client, op, ctxDone, posts,
                   n412, lockVars, req, retval, kv, plain, deleted,
                   storedTwice>>

\* ------------------------------------------------------------ remote
\* The request of c on the wire was POSTed to the URL of operation o.
Serving(c, o) == net[c] = "req" /\ req[c].path = o

\* The remote answers the request of c that is on the wire with r; the
\* answer is dropped when c no longer waits for it.
Reply(c, r) ==
    /\ net' = [net EXCEPT ![c] = IF pc[c] = "wait" THEN "resp" ELSE "none"]
    /\ resp' = [resp EXCEPT ![c] = IF pc[c] = "wait" THEN r ELSE NoResp]
    /\ req' = [req EXCEPT ![c] = NoReq]

\* Statuses a misbehaving remote can answer a lock or unlock request with,
\* changing nothing.
LockFaults == {404, 500}
UnlockFaults == {404, 500}

\* What the lock and unlock endpoints leave alone.
lockFrame == <<cfgVars, open, removed, client, op, pc, ctxDone, last, result,
               posts, n412, arg, retval, kv, plain, deleted, storedTwice>>

\* lock: 201 to the first request while the key is free, 412 while held.
RemoteLockServe(c) ==
    /\ Serving(c, "lock")
    /\ \/ /\ lockHolder = "free"
          /\ lockHolder' = c
          /\ granted' = [granted EXCEPT ![c] = TRUE]
          /\ overtaken' = [d \in Callers |->
                              \/ overtaken[d]
                              \/ d # c /\ InLock(d) /\ posts[d] >= 1]
          /\ Reply(c, Empty(201))
       \/ /\ lockHolder # "free"
          /\ Reply(c, Empty(412))
          /\ UNCHANGED <<lockHolder, granted, overtaken>>
    /\ UNCHANGED <<lockFrame, owns, released>>

\* lock, misbehaving: another status, nothing changed.
RemoteLockFault(c) ==
    /\ Serving(c, "lock")
    /\ \E st \in LockFaults : Reply(c, Empty(st))
    /\ UNCHANGED <<lockFrame, lockVars, overtaken>>

RemoteLock(c) == RemoteLockServe(c) \/ RemoteLockFault(c)

\* unlock: releases by key alone and answers 204; 404 when nothing is held.
RemoteUnlockServe(c) ==
    /\ Serving(c, "unlock")
    /\ \/ /\ lockHolder # "free"
          /\ lockHolder' = "free"
          /\ owns' = [d \in Callers |-> owns[d] /\ d # lockHolder]
          /\ released' = [released EXCEPT ![c] = TRUE]
          /\ Reply(c, Empty(204))
       \/ /\ lockHolder = "free"
          /\ Reply(c, Empty(404))
          /\ UNCHANGED <<lockHolder, owns, released>>
    /\ UNCHANGED <<lockFrame, granted, overtaken>>

\* unlock, misbehaving: another status, nothing changed.
RemoteUnlockFault(c) ==
    /\ Serving(c, "unlock")
    /\ \E st \in UnlockFaults : Reply(c, Empty(st))
    /\ UNCHANGED <<lockFrame, lockVars, overtaken>>

RemoteUnlock(c) == RemoteUnlockServe(c) \/ RemoteUnlockFault(c)

\* ------------------------------------------------------------ timestamps
\* A timestamp is the sequence of its characters. The remote is modelled to
\* send these (none with fractional seconds):
\* "2023-05-01T12:00:00Z"
StampUTC ==
    <<"2", "0", "2", "3", "-", "0", "5", "-", "0", "1", "T", "1", "2", ":",
      "0", "0", ":", "0", "0", "Z">>

\* "2023-05-01T14:00:00+02:00"
StampPlus2 ==
    <<"2", "0", "2", "3", "-", "0", "5", "-", "0", "1", "T", "1", "4", ":",
      "0", "0", ":", "0", "0", "+", "0", "2", ":", "0", "0">>

\* "2024-02-29T23:59:59-01:00"
StampLeapDay ==
    <<"2", "0", "2", "4", "-", "0", "2", "-", "2", "9", "T", "2", "3", ":",
      "5", "9", ":", "5", "9", "-", "0", "1", ":", "0", "0">>

\* "2023-02-29T00:00:00Z"
StampNoLeapDay ==
    <<"2", "0", "2", "3", "-", "0", "2", "-", "2", "9", "T", "0", "0", ":",
      "0", "0", ":", "0", "0", "Z">>

\* "2023-05-01 12:00:00Z"
StampSpace ==
    <<"2", "0", "2", "3", "-", "0", "5", "-", "0", "1", " ", "1", "2", ":",
      "0", "0", ":", "0", "0", "Z">>

\* "2023-13-01T00:00:00Z"
StampMonth13 ==
    <<"2", "0", "2", "3", "-", "1", "3", "-", "0", "1", "T", "0", "0", ":",
      "0", "0", ":", "0", "0", "Z">>

\* "2023-05-01T12:00:00"
StampNoZone ==
    <<"2", "0", "2", "3", "-", "0", "5", "-", "0", "1", "T", "1", "2", ":",
      "0", "0", ":", "0", "0">>

\* ""
StampEmpty ==
    <<>>

TimeStrings ==
    {StampUTC, StampPlus2, StampLeapDay, StampNoLeapDay, StampSpace,
     StampMonth13, StampNoZone, StampEmpty}

Digits == <<"0", "1", "2", "3", "4", "5", "6", "7", "8", "9">>
IsDigit(ch) == \E i \in 1..10 : Digits[i] = ch
DigitValue(ch) == (CHOOSE i \in 1..10 : Digits[i] = ch) - 1

\* The number written by the n digits of s from position i, -1 if one of
\* them is not a digit.
RECURSIVE Number(_, _, _)
Number(s, i, n) ==
    IF n = 0 THEN 0
    ELSE LET head == Number(s, i, n - 1)
         IN  IF head < 0 \/ ~IsDigit(s[i + n - 1]) THEN -1
             ELSE 10 * head + DigitValue(s[i + n - 1])

IsLeap(y) == y % 4 = 0 /\ (y % 100 # 0 \/ y % 400 = 0)
DaysBefore == <<0, 31, 59, 90, 120, 151, 181, 212, 243, 273, 304, 334>>
DaysIn(y, m) ==
    IF m = 2 THEN (IF IsLeap(y) THEN 29 ELSE 28)
    ELSE IF m \in {4, 6, 9, 11} THEN 30
    ELSE 31
LeapsThrough(y) == y \div 4 - y \div 100 + y \div 400

\* Seconds from 1970-01-01T00:00:00Z to the given civil time in UTC.
UnixSeconds(y, m, d, hh, mm, ss) ==
    LET days == 365 * (y - 1970) + LeapsThrough(y - 1) - LeapsThrough(1969)
                + DaysBefore[m] + (IF m > 2 /\ IsLeap(y) THEN 1 ELSE 0)
                + (d - 1)
    IN  ((days * 24 + hh) * 60 + mm) * 60 + ss

ParseError == [ok |-> FALSE, instant |-> 0]

\* time.Parse(time.RFC3339, s), layout "2006-01-02T15:04:05Z07:00": the
\* separators in place, every field a number in range (the day within the
\* month of that year), the zone "Z" or a signed hh:mm offset; the instant
\* is the civil time less the offset.
ParseRFC3339(s) ==
    IF Len(s) \notin {20, 25} THEN ParseError
    ELSE IF s[5] # "-" \/ s[8] # "-" \/ s[11] # "T" \/ s[14] # ":"
            \/ s[17] # ":" THEN ParseError
    ELSE LET y == Number(s, 1, 4)
             m == Number(s, 6, 2)
             d == Number(s, 9, 2)
             hh == Number(s, 12, 2)
             mm == Number(s, 15, 2)
             ss == Number(s, 18, 2)
             zh == IF Len(s) = 25 THEN Number(s, 21, 2) ELSE 0
             zm == IF Len(s) = 25 THEN Number(s, 24, 2) ELSE 0
             zoneOk == IF Len(s) = 20 THEN s[20] = "Z"
                       ELSE /\ s[20] \in {"+", "-"} /\ s[23] = ":"
                            /\ zh >= 0 /\ zh < 24 /\ zm >= 0 /\ zm < 60
             offset == (IF Len(s) = 25 /\ s[20] = "-" THEN -1 ELSE 1)
                       * (zh * 3600 + zm * 60)
         IN  IF y < 0 \/ m < 1 \/ m > 12 \/ d < 1 \/ hh < 0 \/ hh > 23
                \/ mm < 0 \/ mm > 59 \/ ss < 0 \/ ss > 59 \/ ~zoneOk
               THEN ParseError
             ELSE IF d > DaysIn(y, m) THEN ParseError
             ELSE [ok |-> TRUE,
                   instant |-> UnixSeconds(y, m, d, hh, mm, ss) - offset]

\* ------------------------------------------------------------ content operations
Key == "k"

\* Each operation's interpretation of a response status.
StoreStatus(st) ==
    IF st # 201 THEN "unexpected" ELSE "ok"

LoadStatusNo404(st) ==
    IF st # 200 THEN "unexpected" ELSE "ok"

LoadStatus(st) ==
    IF st = 404 THEN "notfound"
    ELSE IF st # 200 THEN "unexpected"
    ELSE "ok"

DeleteStatusIdempotent(st) ==
    IF st = 404 \/ st = 204 THEN "ok" ELSE "unexpected"

DeleteStatus(st) ==
    IF st = 404 THEN "notfound"
    ELSE IF st # 204 THEN "unexpected"
    ELSE "ok"

ExistsStatus(st) ==
    IF st # 200 THEN "unexpected" ELSE "ok"

ListStatus(st) ==
    IF st = 404 THEN "notfound"
    ELSE IF st # 200 THEN "unexpected"
    ELSE "ok"

StatStatus(st) ==
    IF st = 404 THEN "notfound"
    ELSE IF st # 200 THEN "unexpected"
    ELSE "ok"


\* Store called with a value out of vs.
CallStoreOf(c, vs) ==
    /\ Begin(c, "store")
    /\ \E v \in vs : arg' = [arg EXCEPT ![c] = v]
    /\ UNCHANGED <<cfgVars, overtaken, client, lockVars, req, kv, plain,
                   deleted, storedTwice>>

CallStore(c) == CallStoreOf(c, Values)
CallStoreSample(c) == CallStoreOf(c, SampleValues)

\* A call of an operation that takes no value.
CallKey(c, o) ==
    /\ Begin(c, o)
    /\ arg' = [arg EXCEPT ![c] = <<>>]
    /\ UNCHANGED <<cfgVars, overtaken, client, lockVars, req, kv, plain,
                   deleted, storedTwice>>

CallLoad(c) == CallKey(c, "load")
CallDelete(c) == CallKey(c, "delete")
CallExists(c) == CallKey(c, "exists")
CallList(c) == CallKey(c, "list")
CallStat(c) == CallKey(c, "stat")

\* The operation has its response: it returns r and ret.
Finish(c, r, ret) ==
    /\ op[c] \in {"store", "load", "delete", "exists", "list", "stat"}
    /\ Return(c, r)
    /\ retval' = [retval EXCEPT ![c] = ret]
    /\ last' = [last EXCEPT ![c] = resp[c]]
    /\ net' = [net EXCEPT ![c] = "none"]
    /\ resp' = [resp EXCEPT ![c] = NoResp]
    /\ open' = [open EXCEPT ![c] = BodyClosed(BodyOpened(open[c]))]
    /\ UNCHANGED <<cfgVars, removed, overtaken, client, op, ctxDone, posts,
                   n412, lockVars, req, kv, plain, deleted, storedTwice>>

Received(c, o) == op[c] = o /\ pc[c] = "wait" /\ net[c] = "resp"

StoreResp(c) ==
    /\ Received(c, "store")
    /\ Finish(c, StoreStatus(resp[c].status), NoRet)

LoadResp(c) ==
    /\ Received(c, "load")
    /\ LET out == LoadStatus(resp[c].status)
           dec == DecodeString(resp[c].wire)
       IN  IF out # "ok" THEN Finish(c, out, NoRet)
           ELSE IF resp[c].kind # "value" THEN Finish(c, "decode", NoRet)
           ELSE IF ~dec.ok THEN Finish(c, "decode", NoRet)
           ELSE Finish(c, "ok", [NoRet EXCEPT !.bytes = dec.bytes])

DeleteResp(c) ==
    /\ Received(c, "delete")
    /\ Finish(c, DeleteStatus(resp[c].status), NoRet)

ExistsResp(c) ==
    /\ Received(c, "exists")
    /\ LET out == ExistsStatus(resp[c].status)
       IN  IF out # "ok" THEN Finish(c, out, NoRet)
           ELSE IF resp[c].kind # "exists" THEN Finish(c, "decode", NoRet)
           ELSE Finish(c, "ok", [NoRet EXCEPT !.flag = resp[c].flag])

ListResp(c) ==
    /\ Received(c, "list")
    /\ LET out == ListStatus(resp[c].status)
       IN  IF out # "ok" THEN Finish(c, out, NoRet)
           ELSE IF resp[c].kind # "keys" THEN Finish(c, "decode", NoRet)
           ELSE Finish(c, "ok", [NoRet EXCEPT !.keys = resp[c].keys])

StatRespBestEffort(c) ==
    /\ Received(c, "stat")
    /\ LET out == StatStatus(resp[c].status)
           st == resp[c].stat
           t == ParseRFC3339(st.modified)
       IN  IF out # "ok" THEN Finish(c, out, NoRet)
           ELSE IF resp[c].kind # "stat" THEN Finish(c, "decode", NoRet)
           ELSE Finish(c, "ok",
                       [NoRet EXCEPT !.info =
                           [key |-> st.key, instant |-> t.instant,
                            size |-> st.size, isTerminal |-> st.isTerminal]])

StatResp(c) ==
    /\ Received(c, "stat")
    /\ LET out == StatStatus(resp[c].status)
           st == resp[c].stat
           t == ParseRFC3339(st.modified)
       IN  IF out # "ok" THEN Finish(c, out, NoRet)
           ELSE IF resp[c].kind # "stat" THEN Finish(c, "decode", NoRet)
           ELSE IF ~t.ok THEN Finish(c, "parse", NoRet)
           ELSE Finish(c, "ok",
                       [NoRet EXCEPT !.info =
                           [key |-> st.key, instant |-> t.instant,
                            size |-> st.size, isTerminal |-> st.isTerminal]])

\* ------------------------------------------------------------ remote store
\* Statuses the remote is modelled to answer with.
Statuses == {200, 201, 204, 404, 412, 500}

\* The remote answers a content request of c without serving it: any status
\* but the operation's success code, or the success code with a body that
\* is not the expected JSON.
Refuse(c, success, withBody) ==
    /\ \/ \E st \in Statuses \ {success} : Reply(c, Empty(st))
       \/ withBody /\ Reply(c, Malformed(success))
    /\ UNCHANGED <<kv, plain, deleted, storedTwice>>

remoteFrame == <<cfgVars, callGhost, client, op, pc, ctxDone, last, result, posts, n412,
                 lockVars, arg, retval>>

RemoteStore(c) ==
    /\ Serving(c, "store")
    /\ \/ /\ kv' = [present |-> TRUE, wire |-> req[c].wire]
          /\ plain' = req[c].src
          /\ deleted' = FALSE
          /\ storedTwice' = (kv.present /\ plain = req[c].src)
          /\ Reply(c, Empty(201))
       \/ Refuse(c, 201, FALSE)
    /\ UNCHANGED remoteFrame

RemoteLoad(c) ==
    /\ Serving(c, "load")
    /\ \/ /\ kv.present
          /\ Reply(c, [NoResp EXCEPT !.status = 200, !.kind = "value",
                                     !.wire = kv.wire])
          /\ UNCHANGED <<kv, plain, deleted, storedTwice>>
       \/ /\ ~kv.present
          /\ Reply(c, Empty(404))
          /\ UNCHANGED <<kv, plain, deleted, storedTwice>>
       \/ /\ Reply(c, [NoResp EXCEPT !.status = 200, !.kind = "value",
                                     !.wire = <<0, Pad>>])
          /\ UNCHANGED <<kv, plain, deleted, storedTwice>>
       \/ Refuse(c, 200, TRUE)
    /\ UNCHANGED remoteFrame

RemoteDelete(c) ==
    /\ Serving(c, "delete")
    /\ \/ /\ kv.present
          /\ kv' = [present |-> FALSE, wire |-> <<>>]
          /\ plain' = <<>>
          /\ deleted' = TRUE
          /\ UNCHANGED storedTwice
          /\ removed' = [removed EXCEPT ![c] = TRUE]
          /\ Reply(c, Empty(204))
       \/ /\ ~kv.present
          /\ Reply(c, Empty(404))
          /\ UNCHANGED <<kv, plain, deleted, storedTwice, removed>>
       \/ /\ Refuse(c, 204, FALSE)
          /\ UNCHANGED removed
    /\ UNCHANGED <<cfgVars, open, overtaken, client, op, pc, ctxDone, last,
                   result, posts, n412, lockVars, arg, retval>>

RemoteExists(c) ==
    /\ Serving(c, "exists")
    /\ \/ /\ Reply(c, [NoResp EXCEPT !.status = 200, !.kind = "exists",
                                     !.flag = kv.present])
          /\ UNCHANGED <<kv, plain, deleted, storedTwice>>
       \/ Refuse(c, 200, TRUE)
    /\ UNCHANGED remoteFrame

RemoteList(c) ==
    /\ Serving(c, "list")
    /\ \/ /\ kv.present
          /\ Reply(c, [NoResp EXCEPT !.status = 200, !.kind = "keys",
                                     !.keys = <<Key>>])
          /\ UNCHANGED <<kv, plain, deleted, storedTwice>>
       \/ /\ ~kv.present
          /\ Reply(c, Empty(404))
          /\ UNCHANGED <<kv, plain, deleted, storedTwice>>
       \/ Refuse(c, 200, TRUE)
    /\ UNCHANGED remoteFrame

RemoteStat(c) ==
    /\ Serving(c, "stat")
    /\ \/ /\ kv.present
          /\ \E ts \in TimeStrings, term \in BOOLEAN :
                Reply(c, [NoResp EXCEPT !.status = 200, !.kind = "stat",
                             !.stat = [key |-> Key, modified |-> ts,
                                       size |-> Len(plain),
                                       isTerminal |-> term]])
          /\ UNCHANGED <<kv, plain, deleted, storedTwice>>
       \/ /\ ~kv.present
          /\ Reply(c, Empty(404))
          /\ UNCHANGED <<kv, plain, deleted, storedTwice>>
       \/ Refuse(c, 200, TRUE)
    /\ UNCHANGED remoteFrame

\* ------------------------------------------------------------ specification
\* The client field of the two instances the package makes: the value
\* init() registers carries &http.Client{}; the instance CaddyModule().New
\* hands to the host is new(RestStorage), its client nil.
RegisteredClient == TRUE
NewClient == FALSE

\* The adapters' calls and the remote before anything has run.
InitCalls ==
    /\ client \in [Callers -> {RegisteredClient, NewClient}]
    /\ op = [c \in Callers |-> "none"]
    /\ pc = [c \in Callers |-> "idle"]
    /\ ctxDone = [c \in Callers |-> FALSE]
    /\ net = [c \in Callers |-> "none"]
    /\ resp = [c \in Callers |-> NoResp]
    /\ last = [c \in Callers |-> NoResp]
    /\ result = [c \in Callers |-> "none"]
    /\ posts = [c \in Callers |-> 0]
    /\ n412 = [c \in Callers |-> 0]
    /\ lockHolder \in {"free", "other"}
    /\ owns = [c \in Callers |-> FALSE]
    /\ granted = [c \in Callers |-> FALSE]
    /\ released = [c \in Callers |-> FALSE]
    /\ arg = [c \in Callers |-> <<>>]
    /\ req = [c \in Callers |-> NoReq]
    /\ retval = [c \in Callers |-> NoRet]
    /\ kv = [present |-> FALSE, wire |-> <<>>]
    /\ plain = <<>>
    /\ validated = [c \in Callers |-> "none"]
    /\ open = [c \in Callers |-> 0]
    /\ removed = [c \in Callers |-> FALSE]
    /\ deleted = FALSE
    /\ storedTwice = FALSE
    /\ overtaken = [c \in Callers |-> FALSE]

\* Every adapter configured with an endpoint and a token.
Init ==
    /\ InitCalls
    /\ endpoint = [c \in Callers |-> TRUE]
    /\ token = [c \in Callers |-> TRUE]

Next ==
    \E c \in Callers :
        \/ CallLock(c)
        \/ CallUnlock(c)
        \/ Cancel(c)
        \/ Do(c)
        \/ Abort(c)
        \/ TransportError(c)
        \/ LockResp(c)
        \/ UnlockResp(c)
        \/ RemoteLock(c)
        \/ RemoteUnlock(c)

Spec == Init /\ [][Next]_vars

\* The content operations, run by one caller against the remote store.
InitKV == Init /\ lockHolder = "free" /\ client["c2"]

NextKV ==
    \E c \in KVCallers :
        \/ CallStore(c)
        \/ CallLoad(c)
        \/ CallDelete(c)
        \/ CallExists(c)
        \/ CallList(c)
        \/ CallStat(c)
        \/ Cancel(c)
        \/ Do(c)
        \/ Abort(c)
        \/ TransportError(c)
        \/ StoreResp(c)
        \/ LoadResp(c)
        \/ DeleteResp(c)
        \/ ExistsResp(c)
        \/ ListResp(c)
        \/ StatResp(c)
        \/ RemoteStore(c)
        \/ RemoteLoad(c)
        \/ RemoteDelete(c)
        \/ RemoteExists(c)
        \/ RemoteList(c)
        \/ RemoteStat(c)

SpecKV == InitKV /\ [][NextKV]_vars

\* Every operation and Validate, run by one caller on an adapter whose
\* configuration (UnmarshalCaddyfile, or the JSON fields) may have left the
\* endpoint or the token empty.
InitAll ==
    /\ InitCalls
    /\ lockHolder = "free"
    /\ client["c2"]
    /\ endpoint \in [Callers -> BOOLEAN] /\ endpoint["c2"]
    /\ token \in [Callers -> BOOLEAN] /\ token["c2"]

NextAll ==
    \E c \in KVCallers :
        \/ Validate(c)
        \/ CallLock(c)
        \/ CallUnlock(c)
        \/ CallStoreSample(c)
        \/ CallLoad(c)
        \/ CallDelete(c)
        \/ CallExists(c)
        \/ CallList(c)
        \/ CallStat(c)
        \/ Cancel(c)
        \/ Do(c)
        \/ Abort(c)
        \/ TransportError(c)
        \/ LockResp(c)
        \/ UnlockResp(c)
        \/ StoreResp(c)
        \/ LoadResp(c)
        \/ DeleteResp(c)
        \/ ExistsResp(c)
        \/ ListResp(c)
        \/ StatResp(c)
        \/ RemoteLock(c)
        \/ RemoteUnlock(c)
        \/ RemoteStore(c)
        \/ RemoteLoad(c)
        \/ RemoteDelete(c)
        \/ RemoteExists(c)
        \/ RemoteList(c)
        \/ RemoteStat(c)

SpecAll == InitAll /\ [][NextAll]_vars

\* The lock protocol under the scheduling the Go runtime gives a running
\* call: a call that is about to enter r.client.Do enters it, and one
\* blocked in it with a done context returns.
FairSpec ==
    /\ Spec
    /\ \A c \in Callers : WF_vars(Do(c)) /\ WF_vars(Abort(c))

\* The lock protocol against a faithful remote over a reliable transport:
\* no transport error, no status but 201, 412, 204 and 404, every adapter
\* with a client. Scheduling is fair to every step of a running call and to
\* the remote; when callers call and whether they cancel is left open.
InitLive == Init /\ lockHolder = "free" /\ \A c \in Callers : client[c]

NextLive ==
    \E c \in Callers :
        \/ CallLock(c)
        \/ CallUnlock(c)
        \/ Cancel(c)
        \/ Do(c)
        \/ Abort(c)
        \/ LockResp(c)
        \/ UnlockResp(c)
        \/ RemoteLockServe(c)
        \/ RemoteUnlockServe(c)

LiveFairness ==
    \A c \in Callers :
        /\ WF_vars(Do(c)) /\ WF_vars(Abort(c))
        /\ WF_vars(LockResp(c)) /\ WF_vars(UnlockResp(c))
        /\ WF_vars(RemoteLockServe(c)) /\ WF_vars(RemoteUnlockServe(c))

LiveSpec == InitLive /\ [][NextLive]_vars /\ LiveFairness

\* One schedule of the lock protocol: Holder locks, unlocks and locks again
\* for ever, Starved calls Lock once and never cancels, and the remote gets
\* to Starved's requests only while Holder has the key.
Holder == "c1"
Starved == "c2"

HolderLocks == ~owns[Holder] /\ CallLock(Holder) /\ ~ctxDone'[Holder]
HolderUnlocks == CallUnlock(Holder) /\ ~ctxDone'[Holder]
StarvedLocks == pc[Starved] = "idle" /\ CallLock(Starved) /\ ~ctxDone'[Starved]
StarvedServed == lockHolder # "free" /\ RemoteLockServe(Starved)

NextStarve ==
    \/ HolderLocks
    \/ HolderUnlocks
    \/ StarvedLocks
    \/ StarvedServed
    \/ RemoteLockServe(Holder)
    \/ RemoteUnlockServe(Holder)
    \/ \E c \in Callers :
          \/ Do(c)
          \/ LockResp(c)
          \/ UnlockResp(c)

StarveSpec ==
    /\ InitLive /\ [][NextStarve]_vars
    /\ WF_vars(HolderLocks) /\ WF_vars(HolderUnlocks) /\ WF_vars(StarvedLocks)
    /\ SF_vars(StarvedServed)
    /\ WF_vars(RemoteLockServe(Holder)) /\ WF_vars(RemoteUnlockServe(Holder))
    /\ \A c \in Callers :
          WF_vars(Do(c)) /\ WF_vars(LockResp(c)) /\ WF_vars(UnlockResp(c))

\* The lock protocol run by the adapter of src/unnamed/part_000, which has
\* no client field: http.Post uses the default client.
InitV0 == Init /\ \A c \in Callers : client[c]

NextV0 ==
    \E c \in Callers :
        \/ CallLock(c)
        \/ CallUnlockV0(c)
        \/ Cancel(c)
        \/ PostV0(c)
        \/ TransportError(c)
        \/ LockRespV0(c)
        \/ UnlockRespV0(c)
        \/ RemoteLock(c)
        \/ RemoteUnlock(c)

SpecV0 == InitV0 /\ [][NextV0]_vars

\* ------------------------------------------------------------ claims

\* C1: mutual exclusion. With a remote that grants the key to one request
\* at a time and only the holder unlocking, two Lock calls have never both
\* returned nil without the first one's unlock processed in between: while
\* c owns the key the remote holds it for c, no other caller owns it, and
\* another caller's Lock call has not returned nil.
C1_MutualExclusion ==
    \A c \in Callers : \A d \in Callers \ {c} :
        owns[c] =>
            /\ lockHolder = c
            /\ ~owns[d]
            /\ (LockDone(d) => result[d] # "ok")

C1_Witness ==
    /\ owns["c1"]
    /\ InLock("c2") /\ n412["c2"] >= 2 /\ ~ctxDone["c2"]

\* C2: a Lock call that returned a cancellation error was never answered
\* 201 by the remote.
C2_NoGrantOnCancel ==
    \A c \in Callers :
        (LockDone(c) /\ result[c] = "cancelled") => ~granted[c]

\* C3: Lock returns nil only on a 201, after exactly n + 1 POSTs when n
\* responses of 412 preceded it; a status other than 201 and 412 ends the
\* call with an unexpected-status error at once, also after n + 1 POSTs;
\* the loop goes round only on 412.
C3_LockStatusMapping ==
    \A c \in Callers :
        /\ InLock(c) => /\ last[c].status \in {0, 412}
                        /\ (last[c].status = 0) = (n412[c] = 0)
        /\ LockDone(c) =>
            /\ result[c] = "ok" => last[c].status = 201
            /\ last[c].status = 201 => result[c] = "ok"
            /\ result[c] = "unexpected" => last[c].status \notin {0, 201, 412}
            /\ last[c].status \notin {0, 201, 412} => result[c] = "unexpected"
            /\ (result[c] \in {"ok", "unexpected"} /\ n412[c] < MaxPosts)
                  => posts[c] = n412[c] + 1

C3_Witness ==
    /\ LockDone("c1") /\ result["c1"] = "ok"
    /\ n412["c1"] = 2 /\ posts["c1"] = 3

\* C4: the retry loop has no attempt cap. A Lock call returns only on a
\* 201, on a status other than 201 and 412, on a transport error or on
\* cancellation; a 412 sends the call back to the top of the loop however
\* many it has received, and from there, with a live context, the next
\* POST is issued.
C4_NoAttemptCap ==
    [][\A c \in Callers :
          /\ (InLock(c) /\ pc'[c] = "done" /\ result'[c] # "panic") =>
                \/ result'[c] \in {"cancelled", "transport"}
                \/ result'[c] = "ok" /\ resp[c].status = 201
                \/ result'[c] = "unexpected" /\ resp[c].status \notin {0, 201, 412}
          /\ (op[c] = "lock" /\ pc[c] = "wait" /\ pc'[c] # "wait"
                /\ resp[c].status = 412
                /\ result'[c] \notin {"cancelled", "transport"}) =>
                pc'[c] = "start"
          /\ (op[c] = "lock" /\ pc[c] = "start" /\ client[c] /\ ~ctxDone[c]
                /\ pc'[c] # "start") => pc'[c] = "wait"
      ]_vars

C4_Witness ==
    /\ InLock("c1") /\ pc["c1"] = "wait" /\ ~ctxDone["c1"]
    /\ n412["c1"] = MaxPosts /\ posts["c1"] = MaxPosts

\* C5: cancellation of Lock. Against a key held for good by someone else, a
\* Lock call never returns nil, and one that received nothing but 412 and
\* met no transport error returns only by cancellation; once the signal
\* has fired no new POST is issued; and the call returns.
C5_LockCancellation ==
    /\ [](\A c \in Callers :
            (lockHolder = "other" /\ LockDone(c)) =>
                /\ result[c] # "ok"
                /\ (result[c] \notin {"transport", "panic", "unexpected"})
                      => (result[c] = "cancelled" /\ ctxDone[c]))
    /\ [][\A c \in Callers :
            (InLock(c) /\ ctxDone[c]) =>
                /\ ~(pc[c] = "start" /\ pc'[c] = "wait")
                /\ (op'[c] = "lock" /\ pc'[c] # "start") => posts'[c] = posts[c]
         ]_vars
    /\ \A c \in Callers :
            (InLock(c) /\ ctxDone[c] /\ client[c]) ~> LockDone(c)

C5_Witness ==
    /\ lockHolder = "other"
    /\ LockDone("c1") /\ result["c1"] = "cancelled"
    /\ n412["c1"] >= 1 /\ posts["c1"] = n412["c1"] + 1

\* C6: Unlock returns nil exactly on 204, the not-found error on 404 and an
\* unexpected-status error on any other status.
C6_UnlockStatusMapping ==
    \A c \in Callers :
        (UnlockDone(c) /\ last[c].status # 0) =>
            /\ (result[c] = "ok") = (last[c].status = 204)
            /\ (result[c] = "notfound") = (last[c].status = 404)
            /\ (result[c] = "unexpected") = (last[c].status \notin {204, 404})

\* C7 as stated: an Unlock call that returned an error has not released
\* the lock.
C7_FailedUnlockLeavesLock ==
    \A c \in Callers :
        (UnlockDone(c) /\ result[c] # "ok") => ~released[c]

\* C7 as amended: an Unlock call that returned an error for the status of a
\* response it received (or faulted before sending) has not released the
\* lock, and one that returned nil has.
C7_StatusErrorLeavesLock ==
    \A c \in Callers :
        UnlockDone(c) =>
            /\ result[c] \in {"unexpected", "notfound", "panic"} => ~released[c]
            /\ result[c] = "ok" => released[c]

C7_Witness ==
    /\ UnlockDone("c1") /\ result["c1"] = "unexpected"
    /\ last["c1"].status = 500
    /\ owns["c1"] /\ lockHolder = "c1"

\* The success and not-found codes of the content operations.
SuccessCode(o) ==
    IF o = "store" THEN 201 ELSE IF o = "delete" THEN 204 ELSE 200
HasNotFound(o) == o \in {"load", "delete", "list", "stat"}

\* C8: for load, delete, list and stat a 404 gives the not-found error and
\* no result; an operation succeeds only on its success code; any other
\* status gives an unexpected-status error.
C8_NotFoundMapping ==
    \A c \in KVCallers :
        (op[c] \in {"store", "load", "delete", "list", "stat"}
            /\ pc[c] = "done" /\ last[c].status # 0) =>
            /\ (HasNotFound(op[c]) /\ last[c].status = 404) =>
                  (result[c] = "notfound" /\ retval[c] = NoRet)
            /\ result[c] = "notfound" =>
                  (HasNotFound(op[c]) /\ last[c].status = 404)
            /\ result[c] = "ok" => last[c].status = SuccessCode(op[c])
            /\ (last[c].status # SuccessCode(op[c])
                  /\ ~(HasNotFound(op[c]) /\ last[c].status = 404)) =>
                  (result[c] = "unexpected" /\ retval[c] = NoRet)

C8_Witness ==
    /\ op["c1"] = "load" /\ pc["c1"] = "done"
    /\ last["c1"].status = 404 /\ result["c1"] = "notfound"

\* C9: Exists ends with a plain boolean whatever happens, true only for a
\* 200 whose body says exists = true.
C9_ExistsNeverRaises ==
    \A c \in KVCallers :
        (op[c] = "exists" /\ pc[c] = "done") =>
            /\ result[c] = "ok"
            /\ retval[c].flag =
                  (last[c].status = 200 /\ last[c].kind = "exists"
                      /\ last[c].flag)

\* C10: round trip. A Load that receives what the remote stored for the
\* last Store returns exactly the bytes that Store was given, and decoding
\* undoes encoding on the value in hand.
C10_RoundTrip ==
    \A c \in KVCallers :
        /\ DecodeString(EncodeToString(arg[c])) = Decoded(arg[c])
        /\ (op[c] = "load" /\ pc[c] = "done" /\ kv.present
              /\ last[c].status = 200 /\ last[c].kind = "value"
              /\ last[c].wire = kv.wire) =>
              (result[c] = "ok" /\ retval[c].bytes = plain)

C10_Witness ==
    /\ op["c1"] = "load" /\ pc["c1"] = "done" /\ result["c1"] = "ok"
    /\ kv.present /\ plain = <<255, 0>> /\ retval["c1"].bytes = <<255, 0>>

\* C11: idempotence against a faithful remote. A second store of the value
\* stored last leaves the remote entry as the first store left it, and a
\* Load that then receives the entry returns that value. A Delete returns
\* nil only if its own request removed the entry; one that is answered for
\* a key an earlier Delete removed returns the not-found error.
C11_Idempotence ==
    /\ [](\A c \in KVCallers :
            /\ (op[c] = "load" /\ pc[c] = "done" /\ kv.present /\ storedTwice
                  /\ last[c].status = 200 /\ last[c].kind = "value"
                  /\ last[c].wire = kv.wire) =>
                  (result[c] = "ok" /\ retval[c].bytes = plain)
            /\ (op[c] = "delete" /\ pc[c] = "done") =>
                  /\ result[c] = "ok" => removed[c]
                  /\ (deleted /\ ~removed[c] /\ last[c].status = 404) =>
                        result[c] = "notfound")
    /\ [][(kv.present /\ kv'.present /\ plain' = plain) => kv' = kv]_vars

C11_Witness ==
    /\ storedTwice /\ deleted /\ ~kv.present
    /\ op["c1"] = "delete" /\ pc["c1"] = "done" /\ ~removed["c1"]
    /\ last["c1"].status = 404 /\ result["c1"] = "notfound"

C11_WitnessStore ==
    /\ storedTwice /\ kv.present /\ plain = <<77, 255>>
    /\ op["c1"] = "load" /\ pc["c1"] = "done" /\ result["c1"] = "ok"
    /\ retval["c1"].bytes = <<77, 255>>

\* The operations that make a single attempt.
SingleAttemptOps ==
    {"store", "load", "delete", "exists", "list", "stat", "unlock"}

\* C12 as stated: on an adapter with an endpoint, every call of store,
\* load, delete, exists, list, stat and unlock that has returned issued
\* exactly one POST, whatever its outcome.
C12_ExactlyOnePost ==
    \A c \in KVCallers :
        (op[c] \in SingleAttemptOps /\ pc[c] = "done" /\ endpoint[c]
            /\ result[c] # "panic") => posts[c] = 1

\* C12 as amended: a request on the wire went to the path of the running
\* operation; a single-attempt operation issues at most one POST, exactly
\* one if it waits for or has received a response, and none only when
\* r.client.Do failed or faulted before sending; Lock has issued at most
\* one POST more than the 412s it received, and a transport error ends it
\* on the POST that met it.
C12_SingleAttempt ==
    \A c \in KVCallers :
        /\ net[c] = "req" => req[c].path = op[c]
        /\ op[c] \in SingleAttemptOps =>
              /\ posts[c] <= 1
              /\ (pc[c] = "wait" \/ last[c].status # 0) => posts[c] = 1
              /\ (pc[c] = "done" /\ posts[c] = 0) =>
                    /\ ~client[c] \/ ~endpoint[c] \/ ctxDone[c]
                    /\ IF op[c] = "exists" /\ client[c]
                          THEN ~retval[c].flag
                          ELSE result[c] \in {"panic", "transport", "cancelled"}
        /\ op[c] = "lock" =>
              /\ posts[c] <= n412[c] + 1
              /\ (pc[c] = "start" /\ n412[c] < MaxPosts) => posts[c] = n412[c]
              /\ (pc[c] = "done" /\ result[c] = "transport" /\ endpoint[c]
                    /\ n412[c] < MaxPosts) => posts[c] = n412[c] + 1

C12_Witness ==
    /\ LockDone("c1") /\ result["c1"] = "transport"
    /\ n412["c1"] = 2 /\ posts["c1"] = 3

\* C13: starvation is possible. StarveSpec is a schedule of the lock
\* protocol (each of its steps is a step of the protocol) and a fair one
\* (it meets the fairness of LiveSpec); in it the key is free again and
\* again and Holder owns it again and again, while Starved, never
\* cancelled, starts its Lock call, receives 412 again and again and never
\* returns.
C13_Starvation ==
    /\ [][NextLive]_vars
    /\ LiveFairness
    /\ []<>(lockHolder = "free") /\ []<>owns[Holder]
    /\ <>InLock(Starved)
    /\ [](~ctxDone[Starved])
    /\ [][InLock(Starved) => InLock(Starved)']_vars
    /\ []<><<LockResp(Starved) /\ resp[Starved].status = 412>>_vars

C13_Witness ==
    /\ InLock(Starved) /\ ~ctxDone[Starved]
    /\ n412[Starved] = MaxPosts /\ overtaken[Starved]
    /\ lockHolder = "free" /\ UnlockDone(Holder)

\* C14: no livelock. Over a reliable transport, against a faithful remote
\* and under fair scheduling: from a state where the key is free and a
\* Lock call with a live context is polling, a state is reached where some
\* Lock call has returned nil, unless that call's context is cancelled.
C14_NoLivelock ==
    \A c \in Callers :
        (lockHolder = "free" /\ InLock(c) /\ ~ctxDone[c])
            ~> \/ \E d \in Callers : LockDone(d) /\ result[d] = "ok"
               \/ ctxDone[c]

\* C15: Validate returns an error exactly when the endpoint or the token
\* is empty, the endpoint's error when both are, nil when neither is; and
\* the call leaves the adapter's fields as they were.
C15_Validate ==
    /\ [](\A c \in KVCallers :
            validated[c] # "none" =>
                /\ (validated[c] = "nil") = (endpoint[c] /\ token[c])
                /\ (validated[c] = "endpoint") = ~endpoint[c]
                /\ (validated[c] = "token") = (endpoint[c] /\ ~token[c]))
    /\ [][\A c \in KVCallers :
            validated'[c] # validated[c] =>
                UNCHANGED <<endpoint, token, client>>]_vars

C15_Witness ==
    validated["c1"] = "endpoint" /\ ~endpoint["c1"] /\ ~token["c1"]

\* The instants the well-formed timestamps name, in seconds since
\* 1970-01-01T00:00:00Z; the other timestamps of TimeStrings are malformed.
KnownInstants ==
    {[text |-> StampUTC, instant |-> 1682942400],
     [text |-> StampPlus2, instant |-> 1682942400],
     [text |-> StampLeapDay, instant |-> 1709254799]}

\* C16: a Stat that received a 200 with a StatResponse returns, when the
\* modified field is a well-formed RFC3339 timestamp, nil and a KeyInfo
\* with the response's key, size and isTerminal and the instant the
\* timestamp names; when it is malformed, an error and the empty KeyInfo.
C16_StatTimestamp ==
    \A c \in KVCallers :
        (op[c] = "stat" /\ pc[c] = "done" /\ last[c].status = 200
            /\ last[c].kind = "stat") =>
            LET st == last[c].stat
            IN  /\ st.modified \in TimeStrings
                /\ \A k \in KnownInstants :
                      k.text = st.modified =>
                          /\ result[c] = "ok"
                          /\ retval[c].info =
                                [key |-> st.key, instant |-> k.instant,
                                 size |-> st.size,
                                 isTerminal |-> st.isTerminal]
                /\ (~\E k \in KnownInstants : k.text = st.modified) =>
                      /\ result[c] \notin {"ok", "none"}
                      /\ retval[c] = NoRet

C16_Witness ==
    /\ op["c1"] = "stat" /\ pc["c1"] = "done" /\ last["c1"].status = 200
    /\ last["c1"].stat.modified = StampNoLeapDay
    /\ result["c1"] = "parse" /\ retval["c1"] = NoRet

C16_WitnessParsed ==
    /\ op["c1"] = "stat" /\ pc["c1"] = "done" /\ result["c1"] = "ok"
    /\ last["c1"].stat.modified = StampLeapDay
    /\ retval["c1"].info.instant = 1709254799
    /\ retval["c1"].info.size = 2 /\ ~retval["c1"].info.isTerminal

\* C17: no operation faults for want of a client, on any instance the
\* package hands out (the one CaddyModule().New makes included).
C17_UsableClient ==
    \A c \in KVCallers : pc[c] = "done" => result[c] # "panic"

\* C18 as stated: whenever an operation has a request out, the adapter's
\* endpoint and token are both non-empty, and an operation on an adapter
\* with an empty endpoint or token sends nothing.
C18_CredentialsWhenSending ==
    \A c \in KVCallers :
        /\ (pc[c] = "wait" \/ net[c] = "req") => (endpoint[c] /\ token[c])
        /\ (~endpoint[c] \/ ~token[c]) => posts[c] = 0

\* C18 as amended: on an adapter for which Validate returned nil, the
\* endpoint and the token are non-empty whenever an operation has a
\* request out; and whatever Validate said, an operation on an adapter
\* with an empty endpoint sends nothing.
C18_ValidatedCredentials ==
    \A c \in KVCallers :
        /\ (validated[c] = "nil" /\ (pc[c] = "wait" \/ net[c] = "req"))
              => (endpoint[c] /\ token[c])
        /\ ~endpoint[c] => (posts[c] = 0 /\ net[c] = "none")

C18_Witness ==
    /\ validated["c1"] = "nil" /\ op["c1"] = "store"
    /\ pc["c1"] = "wait" /\ net["c1"] = "req" /\ posts["c1"] = 1

\* The operations C19 is about.
CancellableOps == {"store", "load", "delete", "list", "stat", "unlock"}

\* C19 as stated, its weaker half: on an adapter with a client and an
\* endpoint, a call of store, load, delete, list, stat or unlock whose
\* signal has fired before it has its response does not return nil.
C19_CancelledNeverSucceeds ==
    [][\A c \in KVCallers :
          (op[c] \in CancellableOps /\ client[c] /\ endpoint[c]
              /\ pc[c] \in {"start", "wait"} /\ ctxDone[c]
              /\ pc'[c] = "done") => result'[c] # "ok"
      ]_vars

\* C19 as amended. A call (exists included) that reaches r.client.Do with
\* its signal fired sends nothing, leaves the remote as it is and does not
\* succeed: it returns the cancellation error if the adapter has a client
\* and an endpoint (exists returns false). A call whose signal fires while
\* its request is out returns the cancellation error or what a response
\* that has arrived gives; and the cancellation error is returned only
\* when the signal has fired.
C19_Cancellation ==
    [][\A c \in KVCallers :
          op[c] \in CancellableOps \cup {"exists"} =>
            /\ (pc[c] = "start" /\ ctxDone[c] /\ pc'[c] # "start") =>
                  /\ pc'[c] = "done" /\ posts'[c] = 0 /\ net'[c] = "none"
                  /\ kv' = kv /\ lockHolder' = lockHolder
                  /\ IF op[c] = "exists" /\ client[c]
                        THEN result'[c] = "ok" /\ ~retval'[c].flag
                        ELSE result'[c] \in {"cancelled", "transport", "panic"}
                  /\ (client[c] /\ endpoint[c] /\ op[c] # "exists")
                        => result'[c] = "cancelled"
            /\ (pc[c] = "wait" /\ ctxDone[c] /\ pc'[c] = "done"
                  /\ op[c] # "exists") =>
                  \/ result'[c] \in {"cancelled", "transport"}
                  \/ net[c] = "resp"
            /\ (pc[c] # "done" /\ pc'[c] = "done" /\ op'[c] # "exists"
                  /\ result'[c] = "cancelled") => ctxDone[c]
      ]_vars

C19_Witness ==
    /\ op["c1"] = "store" /\ pc["c1"] = "done" /\ ctxDone["c1"]
    /\ result["c1"] = "cancelled" /\ posts["c1"] = 0 /\ ~kv.present

\* C20: no response is left open. A call holds at most one response body
\* open, and none once it has returned.
C20_NoOpenBodies ==
    \A c \in Callers :
        /\ open[c] <= 1
        /\ pc[c] = "done" => open[c] = 0

====
